---- MODULE Spec2Model ----
(***************************************************************************)
(* A model of hvac's asynchronous HTTP adapters (hvac/async_adapters.py):  *)
(* AsyncAdapter, RawAsyncAdapter and JSONAsyncAdapter.                     *)
(*                                                                         *)
(* URLs and paths are sequences of one-character strings, so that strip,   *)
(* replace and join are computed character by character.  Header maps,     *)
(* query maps and keyword options are functions from names to values.      *)
(* Tokens, namespaces and header values are opaque strings; Python's None  *)
(* is the value None below.                                                *)
(***************************************************************************)
EXTENDS Integers, Sequences, FiniteSets, TLC

VARIABLES cfg, token, tasks, lastLogin, joinIn, joinOut, session, loop, caller

vars == <<cfg, token, tasks, lastLogin, joinIn, joinOut, session, loop, caller>>

(***************************************************************************)
(* Bounds of the model.                                                    *)
(***************************************************************************)
NTasks == 2
MaxParts == 2
MaxPartLen == 4
MaxPathLen == 5
MaxCloses == 2

Tasks == 1..NTasks

(***************************************************************************)
(* Python values.                                                          *)
(***************************************************************************)
None == "<None>"

\* Truth value of a str-or-None value: None and "" are falsy.
Truthy(s) == s # None /\ s # ""

\* Option values of mixed type (wrap_ttl may be an int or a str).
IntV(n) == [ty |-> "int", n |-> n]
StrV(s) == [ty |-> "str", s |-> s]
NoneV == [ty |-> "none"]

TruthyV(v) ==
    CASE v.ty = "int" -> v.n # 0
      [] v.ty = "str" -> v.s # ""
      [] OTHER -> FALSE

Digit(d) == <<"0", "1", "2", "3", "4", "5", "6", "7", "8", "9">>[d + 1]

RECURSIVE DecStr(_)
DecStr(n) == IF n < 10 THEN Digit(n) ELSE DecStr(n \div 10) \o Digit(n % 10)

\* str(v) for an int or a str.
Str(v) ==
    CASE v.ty = "int" -> IF v.n < 0 THEN "-" \o DecStr(0 - v.n) ELSE DecStr(v.n)
      [] v.ty = "str" -> v.s
      [] OTHER -> "None"

\* dict operations
EmptyMap == <<>>
Put(m, k, v) == (k :> v) @@ m
Del(m, k) == [q \in DOMAIN m \ {k} |-> m[q]]
Update(m, n) == n @@ m
Get(m, k, default) == IF k \in DOMAIN m THEN m[k] ELSE default

\* An optional dict argument: not passed (or None), or a dict.
Absent == [given |-> FALSE]
Given(m) == [given |-> TRUE, map |-> m]

(***************************************************************************)
(* URL Builder.                                                            *)
(***************************************************************************)
RECURSIVE LStrip(_)
LStrip(s) == IF Len(s) > 0 /\ Head(s) = "/" THEN LStrip(Tail(s)) ELSE s

RECURSIVE RStrip(_)
RStrip(s) ==
    IF Len(s) > 0 /\ s[Len(s)] = "/" THEN RStrip(SubSeq(s, 1, Len(s) - 1)) ELSE s

\* A strip of the leading slashes only (lstrip).
Strip_LeftOnly(s) == LStrip(s)

\* x.strip("/")
Strip(s) == RStrip(LStrip(s))

\* "/".join(ps)
RECURSIVE JoinSlash(_)
JoinSlash(ps) ==
    IF Len(ps) = 0 THEN <<>>
    ELSE IF Len(ps) = 1 THEN ps[1]
    ELSE ps[1] \o <<"/">> \o JoinSlash(Tail(ps))

\* AsyncAdapter.urljoin(*args)
urljoin(args) == JoinSlash([i \in 1..Len(args) |-> Strip(args[i])])

\* "//" in s
HasDoubleSlash(s) == \E i \in 1..(Len(s) - 1) : s[i] = "/" /\ s[i + 1] = "/"

\* A replace that drops both slashes of each "//".
RECURSIVE ReplaceDouble_Drop(_)
ReplaceDouble_Drop(s) ==
    IF Len(s) < 2 THEN s
    ELSE IF s[1] = "/" /\ s[2] = "/"
         THEN ReplaceDouble_Drop(SubSeq(s, 3, Len(s)))
         ELSE <<s[1]>> \o ReplaceDouble_Drop(Tail(s))

\* s.replace("//", "/"): left to right, non-overlapping occurrences.
RECURSIVE ReplaceDouble(_)
ReplaceDouble(s) ==
    IF Len(s) < 2 THEN s
    ELSE IF s[1] = "/" /\ s[2] = "/"
         THEN <<"/">> \o ReplaceDouble(SubSeq(s, 3, Len(s)))
         ELSE <<s[1]>> \o ReplaceDouble(Tail(s))

\* One replace instead of the loop.
CollapseSlashes_Once(s) == ReplaceDouble(s)

\* while "//" in url: url = url.replace("//", "/")
RECURSIVE CollapseSlashes(_)
CollapseSlashes(s) ==
    IF HasDoubleSlash(s) THEN CollapseSlashes(ReplaceDouble(s)) ELSE s

\* The absolute URL request() builds.
RequestUrl(base_uri, url) == urljoin(<<base_uri, CollapseSlashes(url)>>)

(***************************************************************************)
(* Responses of the transport (aiohttp.ClientResponse).                    *)
(*                                                                         *)
(* A decoded JSON value is a tagged record; a body is the text of a JSON   *)
(* value, the empty body, or text that is not JSON.                        *)
(***************************************************************************)
JNull == [j |-> "null"]
JStr(s) == [j |-> "str", s |-> s]
JObj(m) == [j |-> "obj", m |-> m]
JList(l) == [j |-> "list", l |-> l]

JsonBody(v) == [raw |-> "json", v |-> v]
EmptyBody == [raw |-> "empty"]
GarbageBody == [raw |-> "garbage"]

Response(status, ctype, body) == [status |-> status, ctype |-> ctype, body |-> body]

\* The outcome of an expression: a value, or an exception raised.
Val(v) == [ok |-> TRUE, v |-> v]
Exc(e) == [ok |-> FALSE, exc |-> e]

CtJson == "application/json"
CtJsonCharset == "application/json; charset=utf-8"
CtText == "text/plain"

\* aiohttp's test of the Content-Type in ClientResponse.json(): the mimetype
\* application/json, with or without parameters.
IsJsonMime(ct) == ct \in {CtJson, CtJsonCharset}

\* A success test that accepts only the statuses 200..299.
Ok_SuccessOnly(r) == r.status \in 200..299

\* ClientResponse.ok
Ok(r) == r.status < 400

\* await response.json(): ContentTypeError when the mimetype is not JSON, None
\* for an empty body, json.JSONDecodeError (a ValueError) for text that is not
\* JSON, else the decoded value.
ResponseJson(r) ==
    IF ~IsJsonMime(r.ctype) THEN Exc("ContentTypeError")
    ELSE IF r.body.raw = "empty" THEN Val(JNull)
    ELSE IF r.body.raw = "garbage" THEN Exc("JSONDecodeError")
    ELSE Val(r.body.v)

\* await response.text()
ResponseText(r) == [text |-> r.body]
NoText == [text |-> None]

\* except ValueError
IsValueError(e) == e \in {"JSONDecodeError", "UnicodeDecodeError"}

\* A lookup in the manner of dict.get: None when the key cannot be found.
Subscript_Lenient(o, key) ==
    IF ~o.ok THEN o
    ELSE IF o.v.j = "obj" /\ key \in DOMAIN o.v.m THEN Val(o.v.m[key])
    ELSE Val(JNull)

\* o[key] on the outcome o: KeyError for a dict without the key, TypeError for
\* a value that is no dict (None, a str, a list); an exception in o propagates.
Subscript(o, key) ==
    IF ~o.ok THEN o
    ELSE IF o.v.j = "obj"
         THEN IF key \in DOMAIN o.v.m THEN Val(o.v.m[key]) ELSE Exc("KeyError")
         ELSE Exc("TypeError")

\* What request() and login() hand back: the response object or a decoded body.
RespObj(r) == [obj |-> "response", resp |-> r]
Decoded(v) == [obj |-> "decoded", v |-> v]

Returned(x) == [kind |-> "return", val |-> x]
Raised(e) == [kind |-> "raise", err |-> e]

\* An exception that is not one of hvac's classified errors.
Unclassified(e) == [exc |-> e, classified |-> FALSE]

Nil == [nil |-> TRUE]

\* urljoin has not been called.
NotJoined == [done |-> FALSE]

(***************************************************************************)
(* Error Classifier: hvac.utils.raise_for_error.                           *)
(***************************************************************************)
ErrorKind(status) ==
    CASE status = 400 -> "InvalidRequest"
      [] status = 401 -> "Unauthorized"
      [] status = 403 -> "Forbidden"
      [] status = 404 -> "NotFound"
      [] status = 405 -> "UnsupportedMethod"
      [] status = 412 -> "PreconditionFailed"
      [] status = 429 -> "RateLimitExceeded"
      [] status = 500 -> "InternalServerError"
      [] status = 501 -> "VaultNotInitialized"
      [] status = 503 -> "ServiceUnavailable"
      [] OTHER -> "UnexpectedStatus"

raise_for_error(method, url, status, text, errors) ==
    [exc |-> ErrorKind(status), classified |-> TRUE, method |-> method,
     url |-> url, status |-> status, text |-> text, errors |-> errors]

(***************************************************************************)
(* Request Composer: RawAsyncAdapter.request up to the transport call.     *)
(***************************************************************************)
LowerTable ==
    [get |-> "get", post |-> "post", put |-> "put", delete |-> "delete",
     list |-> "list", head |-> "head", GET |-> "get", POST |-> "post",
     LIST |-> "list", List |-> "list", lIsT |-> "list"]

\* method.lower()
Lower(m) == LowerTable[m]

\* if not headers: headers = {}
HeadersOrEmpty(h) == IF h.given /\ DOMAIN h.map # {} THEN h.map ELSE EmptyMap

\* A marker set only when the caller supplied none (dict.setdefault).
MarkerHeader_SetDefault(c, h) ==
    IF c.request_header /\ "X-Vault-Request" \notin DOMAIN h
    THEN Put(h, "X-Vault-Request", "true") ELSE h

\* if self.request_header: headers["X-Vault-Request"] = "true"
MarkerHeader(c, h) ==
    IF c.request_header THEN Put(h, "X-Vault-Request", "true") ELSE h

\* A composer that never attaches the token.
TokenHeader_Never(tok, h) == h

\* if self.token: headers["X-Vault-Token"] = self.token
TokenHeader(tok, h) == IF Truthy(tok) THEN Put(h, "X-Vault-Token", tok) ELSE h

\* if self.namespace: headers["X-Vault-Namespace"] = self.namespace
NamespaceHeader(c, h) ==
    IF Truthy(c.namespace) THEN Put(h, "X-Vault-Namespace", c.namespace) ELSE h

\* wrap_ttl = kwargs.pop("wrap_ttl", None)
\* if wrap_ttl: headers["X-Vault-Wrap-TTL"] = str(wrap_ttl)
WrapHeader(kw, h) ==
    LET wrap_ttl == Get(kw, "wrap_ttl", NoneV)
    IN  IF TruthyV(wrap_ttl) THEN Put(h, "X-Vault-Wrap-TTL", Str(wrap_ttl)) ELSE h

\* kwargs read with get instead of pop: wrap_ttl stays among the options.
TransportKwargs_NoPop(c, kw) == Update(c._kwargs, kw)

\* kwargs after the pop, merged over self._kwargs
TransportKwargs(c, kw) == Update(c._kwargs, Del(kw, "wrap_ttl"))

\* if self.strict_http and method.lower() in ("list",)
UseShim(c, method) == c.strict_http /\ Lower(method) = "list"

\* params replaced by {"list": "true"} instead of updated.
ShimParams_Overwrite(_kwargs) == "list" :> "true"

\* params = _kwargs.get("params", {}); params.update({"list": "true"})
ShimParams(_kwargs) == Put(Get(_kwargs, "params", EmptyMap), "list", "true")

\* The arguments of session.request(...).
Compose(c, tok, call) ==
    LET headers == WrapHeader(call.kw,
                     NamespaceHeader(c,
                       TokenHeader(tok,
                         MarkerHeader(c, HeadersOrEmpty(call.headers)))))
        _kwargs == TransportKwargs(c, call.kw)
        shim == UseShim(c, call.method)
    IN  [method |-> IF shim THEN "get" ELSE call.method,
         url |-> RequestUrl(c.base_uri, call.url),
         headers |-> headers,
         allow_redirects |-> c.allow_redirects,
         kwargs |-> IF shim THEN Put(_kwargs, "params", ShimParams(_kwargs))
                    ELSE _kwargs]

(***************************************************************************)
(* Response Interpreter: what request() does with the response.            *)
(***************************************************************************)
\* A guard that classifies server errors (5xx) only.
MustRaise_ServerOnly(c, call, r) ==
    r.status >= 500 /\ (call.raise_exception /\ ~c.ignore_exceptions)

\* A guard that forgets the adapter's ignore_exceptions flag.
MustRaise_ForgetIgnore(c, call, r) == ~Ok(r) /\ call.raise_exception

\* if not response.ok and (raise_exception and not self.ignore_exceptions)
MustRaise(c, call, r) == ~Ok(r) /\ (call.raise_exception /\ ~c.ignore_exceptions)

\* An error-list lookup that accepts any Content-Type of mimetype
\* application/json, parameters included.
ResponseErrors_AnyJson(r) ==
    IF IsJsonMime(r.ctype)
    THEN LET o == ResponseJson(r)
         IN  IF o.ok /\ o.v.j = "obj" THEN Get(o.v.m, "errors", JNull) ELSE JNull
    ELSE JNull

\* errors = (await response.json()).get("errors"), under "except Exception:
\* pass", tried only when the Content-Type header equals "application/json".
ResponseErrors(r) ==
    IF r.ctype = CtJson
    THEN LET o == ResponseJson(r)
         IN  IF o.ok /\ o.v.j = "obj" THEN Get(o.v.m, "errors", JNull) ELSE JNull
    ELSE JNull

\* The error raised for a failing response.
ClassifiedError(snt, r) ==
    LET errors == ResponseErrors(r)
        text == IF errors = JNull THEN ResponseText(r) ELSE NoText
    IN  raise_for_error(snt.method, snt.url, r.status, text, errors)

\* RawAsyncAdapter.request, from the response on.
RawInterpret(c, call, snt, r) ==
    IF MustRaise(c, call, r) THEN Raised(ClassifiedError(snt, r))
    ELSE Returned(RespObj(r))

\* A JSON adapter that decodes the body of every response that is not a
\* failure, whatever its status.
JSONInterpret_DecodeSuccess(c, call, snt, r) ==
    LET response == RawInterpret(c, call, snt, r)
    IN  IF response.kind = "raise" THEN response
        ELSE IF Ok(r)
             THEN LET o == ResponseJson(r)
                  IN  IF o.ok THEN Returned(Decoded(o.v))
                      ELSE IF IsValueError(o.exc) THEN response
                      ELSE Raised(Unclassified(o.exc))
             ELSE response

\* JSONAsyncAdapter.request, from the response on.
JSONInterpret(c, call, snt, r) ==
    LET response == RawInterpret(c, call, snt, r)
    IN  IF response.kind = "raise" THEN response
        ELSE IF r.status = 200
             THEN LET o == ResponseJson(r)
                  IN  IF o.ok THEN Returned(Decoded(o.v))
                      ELSE IF IsValueError(o.exc) THEN response
                      ELSE Raised(Unclassified(o.exc))
             ELSE response

Interpret(c, call, snt, r) ==
    IF c.kind = "json" THEN JSONInterpret(c, call, snt, r)
    ELSE RawInterpret(c, call, snt, r)

(***************************************************************************)
(* Login/Token Manager.                                                    *)
(***************************************************************************)
\* RawAsyncAdapter.get_login_token(response)
RawGetLoginToken(r) == Subscript(Subscript(ResponseJson(r), "auth"), "client_token")

\* JSONAsyncAdapter.get_login_token(response): response is what
\* JSONAsyncAdapter.request returned, a decoded body or the response object,
\* and the response object cannot be subscripted.
JSONGetLoginToken(x) ==
    IF x.obj = "decoded" THEN Subscript(Subscript(Val(x.v), "auth"), "client_token")
    ELSE Exc("TypeError")

\* The Python value self.token takes from a decoded client_token.
TokenValue(v) == IF v.j = "str" THEN v.s ELSE None

\* A login that returns the response without storing the token.
StoreToken_Keep(tok, o, response) ==
    IF o.ok THEN <<tok, Returned(response)>>
    ELSE <<tok, Raised(Unclassified(o.exc))>>

\* A login that clears the token when the extraction fails.
StoreToken_ClearOnFail(tok, o, response) ==
    IF o.ok THEN <<TokenValue(o.v), Returned(response)>>
    ELSE <<None, Raised(Unclassified(o.exc))>>

\* self.token = <get_login_token(response)>; return response
\* o is the outcome of get_login_token; the pair is (self.token, result).
StoreToken(tok, o, response) ==
    IF o.ok THEN <<TokenValue(o.v), Returned(response)>>
    ELSE <<tok, Raised(Unclassified(o.exc))>>

(***************************************************************************)
(* The adapter as a state machine.  Each task is one caller coroutine: it  *)
(* is idle, or its call waits in session.request ("sent"), or its login     *)
(* waits in response.json() inside get_login_token ("extract").            *)
(***************************************************************************)
\* nsent counts the session.request calls made for the task's current call.
IdleTask ==
    [pc |-> "idle", call |-> Nil, sent |-> Nil, resp |-> Nil, result |-> Nil,
     nsent |-> 0]

\* A call of get/post/put/delete/list/head/request, or of login.
Call(op, method, url, headers, raise_exception, kw, use_token) ==
    [op |-> op, method |-> method, url |-> url, headers |-> headers,
     raise_exception |-> raise_exception, kw |-> kw, use_token |-> use_token]

\* The timeout a caller constructs the adapter with (the default).
ConfiguredTimeout == 30

\* self._kwargs = {}: __init__ takes cert, verify, timeout and proxies and
\* stores none of them.
InitKwargs(cert, verify, timeout, proxies) == EmptyMap

\* No collapse loop is being followed.
NotLooping == [input |-> <<>>, url |-> <<>>, iters |-> 0, done |-> TRUE]

\* The caller holds no headers dict and no params dict of its own.
NoMaps ==
    [headers |-> EmptyMap, params |-> EmptyMap,
     headers0 |-> EmptyMap, params0 |-> EmptyMap]

\* The session the adapter holds, as yet neither closed nor dropped.
OpenSession == [closes |-> 0, discarded |-> FALSE]

Adapter(kind, base_uri, namespace, ignore_exceptions, strict_http, request_header) ==
    [kind |-> kind, base_uri |-> base_uri, namespace |-> namespace,
     allow_redirects |-> TRUE, ignore_exceptions |-> ignore_exceptions,
     strict_http |-> strict_http, request_header |-> request_header,
     _kwargs |-> InitKwargs(None, TRUE, ConfiguredTimeout, None)]

IsLoginWithToken(call) == call.op = "login" /\ call.use_token

\* Whether the body of r is a JSON object {"auth": {"client_token": <str>}}.
HasClientToken(r) ==
    /\ r.body.raw = "json"
    /\ r.body.v.j = "obj"
    /\ "auth" \in DOMAIN r.body.v.m
    /\ r.body.v.m["auth"].j = "obj"
    /\ "client_token" \in DOMAIN r.body.v.m["auth"].m
    /\ r.body.v.m["auth"].m["client_token"].j = "str"

\* The client_token string a login response carries, read off the body as
\* the server sent it (None when there is none).
BodyClientToken(r) ==
    IF HasClientToken(r) THEN r.body.v.m["auth"].m["client_token"].s ELSE None

\* The caller enters request(): headers are composed and session.request is
\* called, with no suspension point in between.
Start(i, call) ==
    /\ tasks[i].pc = "idle"
    /\ tasks' = [tasks EXCEPT ![i] =
           [pc |-> "sent", call |-> call, sent |-> Compose(cfg, token, call),
            resp |-> Nil, result |-> Nil, nsent |-> 1]]
    /\ UNCHANGED <<cfg, loop, caller, session, token, lastLogin, joinIn, joinOut>>

\* A transport failure handed to the classifier as if it were a 503 answer.
TransportError_Classified(i) ==
    /\ tasks[i].pc = "sent"
    /\ tasks' = [tasks EXCEPT ![i].pc = "idle",
                              ![i].result =
                                  Raised(raise_for_error(tasks[i].sent.method,
                                                         tasks[i].sent.url, 503,
                                                         None, Absent))]
    /\ UNCHANGED <<cfg, loop, caller, session, token, lastLogin, joinIn, joinOut>>

\* A transport failure answered by calling session.request once more.
TransportError_Retry(i) ==
    /\ tasks[i].pc = "sent"
    /\ tasks' = IF tasks[i].nsent < 2
                THEN [tasks EXCEPT ![i].nsent = @ + 1]
                ELSE [tasks EXCEPT ![i].pc = "idle",
                                   ![i].result =
                                       Raised(Unclassified("TransportFailure"))]
    /\ UNCHANGED <<cfg, loop, caller, session, token, lastLogin, joinIn, joinOut>>

\* session.request raises (connection refused, timeout, TLS failure): nothing
\* in request() or login() catches it, so the call ends with it.
TransportError(i) ==
    /\ tasks[i].pc = "sent"
    /\ tasks' = [tasks EXCEPT ![i].pc = "idle",
                              ![i].result = Raised(Unclassified("TransportFailure"))]
    /\ UNCHANGED <<cfg, loop, caller, session, token, lastLogin, joinIn, joinOut>>

\* The dict the caller passed as headers, as request() leaves it: an empty
\* dict is replaced by a new one inside request() ("if not headers"), a
\* dict with entries is the very object the adapter's headers are stored in.
HeadersObjectAfter(c, tok, call) ==
    IF call.headers.given /\ DOMAIN call.headers.map # {}
    THEN Compose(c, tok, call).headers
    ELSE call.headers.map

\* The dict the caller passed as params, as request() leaves it:
\* _kwargs.update(kwargs) copies the reference, so the params.update of the
\* LIST shim writes into the caller's dict.
ParamsObjectAfter(c, call) ==
    IF UseShim(c, call.method)
    THEN ShimParams(TransportKwargs(c, call.kw))
    ELSE call.kw["params"]

\* The caller enters request() with the two dicts it holds, headers= and
\* params=, and with wrap_ttl= when ttl is given.
StartShared(i, op, method, ttl) ==
    LET kw == IF ttl.given
              THEN [params |-> caller.params, wrap_ttl |-> ttl.map]
              ELSE [params |-> caller.params]
        call == Call(op, method, <<"v">>, Given(caller.headers), TRUE, kw, FALSE)
    IN  /\ tasks[i].pc = "idle"
        /\ tasks' = [tasks EXCEPT ![i] =
               [pc |-> "sent", call |-> call, sent |-> Compose(cfg, token, call),
                resp |-> Nil, result |-> Nil, nsent |-> 1]]
        /\ caller' = [caller EXCEPT
                          !.headers = HeadersObjectAfter(cfg, token, call),
                          !.params = ParamsObjectAfter(cfg, call)]
        /\ UNCHANGED <<cfg, loop, token, lastLogin, joinIn, joinOut, session>>

\* session.request returns r: request() runs to its end.  A login of the raw
\* adapter that is to store the token then waits in response.json(); a login
\* of the JSON adapter stores the token at once.
Receive(i, r) ==
    LET t == tasks[i]
        res == Interpret(cfg, t.call, t.sent, r)
    IN  /\ t.pc = "sent"
        /\ IF IsLoginWithToken(t.call) /\ res.kind = "return"
           THEN IF cfg.kind = "raw"
                THEN /\ tasks' = [tasks EXCEPT ![i].pc = "extract", ![i].resp = r]
                     /\ UNCHANGED <<token, lastLogin>>
                ELSE LET st == StoreToken(token, JSONGetLoginToken(res.val), res.val)
                     IN  /\ tasks' = [tasks EXCEPT ![i].pc = "idle", ![i].resp = r,
                                                   ![i].result = st[2]]
                         /\ token' = st[1]
                         /\ lastLogin' = IF st[2].kind = "return"
                                         THEN [by |-> i, t |-> BodyClientToken(r)]
                                         ELSE lastLogin
           ELSE /\ tasks' = [tasks EXCEPT ![i].pc = "idle", ![i].resp = r,
                                          ![i].result = res]
                /\ UNCHANGED <<token, lastLogin>>
        /\ UNCHANGED <<cfg, loop, caller, session, joinIn, joinOut>>

\* A login that stores its token only when no login has stored one before.
Extract_FirstWins(i) ==
    LET t == tasks[i]
        st == StoreToken(token, RawGetLoginToken(t.resp), RespObj(t.resp))
    IN  /\ t.pc = "extract"
        /\ tasks' = [tasks EXCEPT ![i].pc = "idle", ![i].result = st[2]]
        /\ token' = IF lastLogin = Nil THEN st[1] ELSE token
        /\ lastLogin' = IF st[2].kind = "return"
                        THEN [by |-> i, t |-> BodyClientToken(t.resp)]
                        ELSE lastLogin
        /\ UNCHANGED <<cfg, loop, caller, session, joinIn, joinOut>>

\* response.json() of the raw adapter's get_login_token returns or raises.
Extract(i) ==
    LET t == tasks[i]
        st == StoreToken(token, RawGetLoginToken(t.resp), RespObj(t.resp))
    IN  /\ t.pc = "extract"
        /\ tasks' = [tasks EXCEPT ![i].pc = "idle", ![i].result = st[2]]
        /\ token' = st[1]
        /\ lastLogin' = IF st[2].kind = "return"
                        THEN [by |-> i, t |-> BodyClientToken(t.resp)]
                        ELSE lastLogin
        /\ UNCHANGED <<cfg, loop, caller, session, joinIn, joinOut>>

\* close(): await self.session.close(), whatever was done before.
Close ==
    /\ ~session.discarded
    /\ session.closes < MaxCloses
    /\ session' = [session EXCEPT !.closes = @ + 1]
    /\ UNCHANGED <<cfg, loop, caller, token, tasks, lastLogin, joinIn, joinOut>>

\* The caller drops its last reference to the adapter; no call is in flight.
\* Nothing in the class runs at that moment.
Discard ==
    /\ ~session.discarded
    /\ \A i \in Tasks : tasks[i].pc = "idle"
    /\ session' = [session EXCEPT !.discarded = TRUE]
    /\ UNCHANGED <<cfg, loop, caller, token, tasks, lastLogin, joinIn, joinOut>>

\* One iteration of the loop of request(): the test '"//" in url' holds and
\* url = url.replace("//", "/") is executed.
CollapseStep ==
    /\ ~loop.done
    /\ HasDoubleSlash(loop.url)
    /\ loop' = [loop EXCEPT !.url = ReplaceDouble(loop.url), !.iters = @ + 1]
    /\ UNCHANGED <<cfg, token, tasks, lastLogin, joinIn, joinOut, session, caller>>

\* The test '"//" in url' fails and the loop is left.
CollapseExit ==
    /\ ~loop.done
    /\ ~HasDoubleSlash(loop.url)
    /\ loop' = [loop EXCEPT !.done = TRUE]
    /\ UNCHANGED <<cfg, token, tasks, lastLogin, joinIn, joinOut, session, caller>>

\* A call of the static method urljoin on the parts joinIn.
JoinParts ==
    /\ ~joinOut.done
    /\ joinOut' = [done |-> TRUE, url |-> urljoin(joinIn)]
    /\ UNCHANGED <<cfg, loop, caller, session, token, tasks, lastLogin, joinIn>>

\* A second call of urljoin, on the result of the first as its only part.
JoinAgain ==
    /\ joinOut.done
    /\ "again" \notin DOMAIN joinOut
    /\ joinOut' = [done |-> TRUE, url |-> joinOut.url,
                   again |-> urljoin(<<joinOut.url>>)]
    /\ UNCHANGED <<cfg, loop, caller, session, token, tasks, lastLogin, joinIn>>

(***************************************************************************)
(* Inputs.                                                                 *)
(***************************************************************************)
Chr(str) == <<str>>
HostUrl == <<"s", ":", "/", "/", "h">>

AuthBody(t) == JsonBody(JObj([auth |-> JObj([client_token |-> JStr(t)])]))
NoAuthBody == JsonBody(JObj([data |-> JNull]))
AuthNullBody == JsonBody(JObj([auth |-> JNull]))
AuthStrBody == JsonBody(JObj([auth |-> JStr("x")]))
NoClientTokenBody == JsonBody(JObj([auth |-> JObj([policies |-> JNull])]))
ErrorsBody == JsonBody(JObj([errors |-> JList(<<"denied">>)]))

PlainCall(op, method) == Call(op, method, Chr("v"), Absent, TRUE, EmptyMap, FALSE)
LoginCall(use_token, raise_exception) ==
    Call("login", "post", Chr("v"), Absent, raise_exception, EmptyMap, use_token)

(***************************************************************************)
(* Spec: NTasks coroutines share one adapter and run requests and logins   *)
(* concurrently.                                                           *)
(***************************************************************************)
MainAdapters ==
    {Adapter(k, HostUrl, None, FALSE, FALSE, TRUE) : k \in {"raw", "json"}}

MainCalls == {PlainCall("get", "get"), LoginCall(TRUE, TRUE)}

MainResponses ==
    {Response(200, CtJson, AuthBody("t1")), Response(200, CtJson, AuthBody("")),
     Response(200, CtJson, NoAuthBody), Response(403, CtJson, ErrorsBody)}

Init ==
    /\ cfg \in MainAdapters
    /\ token \in {None, "t0"}
    /\ tasks = [i \in Tasks |-> IdleTask]
    /\ lastLogin = Nil
    /\ joinIn = <<>>
    /\ joinOut = NotJoined
    /\ session = OpenSession
    /\ loop = NotLooping
    /\ caller = NoMaps

Next ==
    \E i \in Tasks :
        \/ \E call \in MainCalls : Start(i, call)
        \/ \E r \in MainResponses : Receive(i, r)
        \/ Extract(i)
        \/ TransportError(i)

Spec == Init /\ [][Next]_vars

(***************************************************************************)
(* Steps of a task, as seen in a pair of states.                           *)
(***************************************************************************)
Starts(i) == tasks[i].pc = "idle" /\ tasks'[i].pc = "sent"

Finishes(i) == tasks[i].pc \in {"sent", "extract"} /\ tasks'[i].pc = "idle"

\* A login with use_token=True returns, having got a 200 response whose body
\* is {"auth": {"client_token": t}}.
LoginReturns(i, t) ==
    /\ Finishes(i)
    /\ IsLoginWithToken(tasks'[i].call)
    /\ tasks'[i].result.kind = "return"
    /\ tasks'[i].resp.status = 200
    /\ HasClientToken(tasks'[i].resp)
    /\ BodyClientToken(tasks'[i].resp) = t

SentToken(t) == Get(t.sent.headers, "X-Vault-Token", None)

TokenStrings == {"", "t0", "t1", "t2"}

(***************************************************************************)
(* C1.  After login(url, use_token=True) completes against a 200 response  *)
(* whose body is {"auth": {"client_token": t}}, the stored token equals t, *)
(* and every request issued after the login returns is sent with header    *)
(* X-Vault-Token equal to t, until another login replaces the token.       *)
(***************************************************************************)
\* The claim as stated, for every string t.
C1_AsClaimed ==
    [][\A i \in Tasks :
         /\ \A t \in TokenStrings : LoginReturns(i, t) => token' = t
         /\ (Starts(i) /\ lastLogin # Nil /\ lastLogin.t \in TokenStrings)
                => /\ "X-Vault-Token" \in DOMAIN tasks'[i].sent.headers
                   /\ tasks'[i].sent.headers["X-Vault-Token"] = lastLogin.t]_vars

\* C1 amended: the stored token equals t for every t, and the header is sent
\* with value t when t is not the empty string.
C1_LoginSetsToken ==
    [][\A i \in Tasks :
         /\ \A t \in TokenStrings : LoginReturns(i, t) => token' = t
         /\ (Starts(i) /\ lastLogin # Nil /\ lastLogin.t \in TokenStrings \ {""})
                => /\ "X-Vault-Token" \in DOMAIN tasks'[i].sent.headers
                   /\ tasks'[i].sent.headers["X-Vault-Token"] = lastLogin.t]_vars

\* A request is in flight with the token "t1" of a login that replaced the
\* token given at construction.
C1_Witness ==
    \E i \in Tasks :
        /\ tasks[i].pc = "sent"
        /\ lastLogin # Nil
        /\ lastLogin.by # i
        /\ lastLogin.t = "t1"
        /\ SentToken(tasks[i]) = "t1"

(***************************************************************************)
(* C2.  The token is read once per request, when the headers are composed, *)
(* before the transport call: a request composed before a concurrent login *)
(* stored its token is sent with the old token (or with no token header),  *)
(* its headers do not change when the login completes, and the login's own *)
(* POST carries the token held before the login.                           *)
(***************************************************************************)
C2_TokenReadAtCompose ==
    [][\A i \in Tasks :
         /\ Starts(i) =>
                SentToken(tasks'[i]) = (IF Truthy(token) THEN token ELSE None)
         /\ tasks[i].pc \in {"sent", "extract"} => tasks'[i].sent = tasks[i].sent]_vars

\* A get is in flight with the old token "t0" after a concurrent login, whose
\* own POST also carried "t0", has stored "t1".
C2_Witness ==
    \E i, j \in Tasks :
        /\ i # j
        /\ tasks[i].pc = "sent"
        /\ tasks[i].call.op = "get"
        /\ SentToken(tasks[i]) = "t0"
        /\ token = "t1"
        /\ lastLogin # Nil
        /\ lastLogin.by = j
        /\ tasks[j].pc = "idle"
        /\ SentToken(tasks[j]) = "t0"

(***************************************************************************)
(* SpecInterp: one caller; the transport answers with any status, content  *)
(* type and body, to adapters of both kinds with and without suppression.  *)
(***************************************************************************)
Statuses == {200, 204, 301, 400, 401, 403, 404, 405, 412, 418, 429, 500, 501, 503}

Bodies ==
    {AuthBody("t1"), NoAuthBody, AuthNullBody, AuthStrBody, NoClientTokenBody,
     ErrorsBody, JsonBody(JList(<<>>)), EmptyBody, GarbageBody}

InterpResponses ==
    {Response(st, ct, b) :
        st \in Statuses, ct \in {CtJson, CtJsonCharset, CtText}, b \in Bodies}

InterpAdapters ==
    {Adapter(k, HostUrl, None, ig, strict, TRUE) :
        k \in {"raw", "json"}, ig \in BOOLEAN, strict \in BOOLEAN}

InterpCalls ==
    {PlainCall("get", "get"), PlainCall("list", "LIST"),
     Call("get", "get", Chr("v"), Absent, FALSE, EmptyMap, FALSE),
     LoginCall(TRUE, TRUE), LoginCall(TRUE, FALSE), LoginCall(FALSE, TRUE)}

InitInterp ==
    /\ cfg \in InterpAdapters
    /\ token \in {None, "t0"}
    /\ tasks = [i \in Tasks |-> IdleTask]
    /\ lastLogin = Nil
    /\ joinIn = <<>>
    /\ joinOut = NotJoined
    /\ session = OpenSession
    /\ loop = NotLooping
    /\ caller = NoMaps

NextInterp ==
    \/ \E call \in InterpCalls : Start(1, call)
    \/ \E r \in InterpResponses : Receive(1, r)
    \/ Extract(1)
    \/ TransportError(1)

SpecInterp == InitInterp /\ [][NextInterp]_vars

\* The call of task i has ended and a response had been received for it.
Answered(i) == tasks[i].pc = "idle" /\ tasks[i].resp # Nil /\ tasks[i].result # Nil

\* raise_exception=False on the call, or ignore_exceptions=True on the adapter.
Suppressed(call) == ~call.raise_exception \/ cfg.ignore_exceptions

IsClassified(res) == res.kind = "raise" /\ res.err.classified

(***************************************************************************)
(* C3.  For every response status in {400, 401, 403, 404, 405, 412, 429,   *)
(* 500, 503}, with no suppression set, request raises the error kind that  *)
(* the table of error kinds assigns to the status, with the status of the  *)
(* response, and with the method and URL of the request as sent.           *)
(***************************************************************************)
C3_Table ==
    (400 :> "InvalidRequest") @@ (401 :> "Unauthorized") @@ (403 :> "Forbidden")
    @@ (404 :> "NotFound") @@ (405 :> "UnsupportedMethod")
    @@ (412 :> "PreconditionFailed") @@ (429 :> "RateLimitExceeded")
    @@ (500 :> "InternalServerError") @@ (503 :> "ServiceUnavailable")

C3_ClassifiedByStatus ==
    \A i \in Tasks :
        (/\ Answered(i)
         /\ tasks[i].resp.status \in DOMAIN C3_Table
         /\ ~Suppressed(tasks[i].call))
        => /\ IsClassified(tasks[i].result)
           /\ tasks[i].result.err.exc = C3_Table[tasks[i].resp.status]
           /\ tasks[i].result.err.status = tasks[i].resp.status
           /\ tasks[i].result.err.method = tasks[i].sent.method
           /\ tasks[i].result.err.url = tasks[i].sent.url

\* A list call sent as GET under strict_http was answered 404 and raised
\* NotFound carrying the status, "get" and the absolute URL.
C3_Witness ==
    \E i \in Tasks :
        /\ Answered(i)
        /\ tasks[i].call.op = "list"
        /\ cfg.strict_http
        /\ tasks[i].resp.status = 404
        /\ IsClassified(tasks[i].result)
        /\ tasks[i].result.err.exc = "NotFound"
        /\ tasks[i].result.err.method = "get"
        /\ tasks[i].result.err.url = HostUrl \o <<"/", "v">>

(***************************************************************************)
(* C4.  With suppression set, request never raises a classified error: for *)
(* a failing status both adapters return the response object, and a        *)
(* classified error is raised only for a failing status with no            *)
(* suppression set.                                                        *)
(***************************************************************************)
C4_SuppressionReturns ==
    \A i \in Tasks :
        Answered(i) =>
            /\ Suppressed(tasks[i].call) => ~IsClassified(tasks[i].result)
            /\ (/\ Suppressed(tasks[i].call)
                /\ tasks[i].resp.status >= 400
                /\ ~IsLoginWithToken(tasks[i].call))
               => tasks[i].result = Returned(RespObj(tasks[i].resp))
            /\ IsClassified(tasks[i].result)
               => tasks[i].resp.status >= 400 /\ ~Suppressed(tasks[i].call)

\* The JSON adapter returned the response object of a 500 answer to a call
\* made with raise_exception=False.
C4_Witness ==
    \E i \in Tasks :
        /\ Answered(i)
        /\ cfg.kind = "json"
        /\ ~cfg.ignore_exceptions
        /\ ~tasks[i].call.raise_exception
        /\ tasks[i].resp.status = 500
        /\ tasks[i].result = Returned(RespObj(tasks[i].resp))

(***************************************************************************)
(* C5.  JSONAsyncAdapter.request on a response with status exactly 200:    *)
(* if the body parses as JSON it returns the parsed structure; if the body *)
(* cannot be parsed, for any reason, it returns the raw response object    *)
(* unchanged and does not raise.                                           *)
(***************************************************************************)
C5_DecodeOrRaw ==
    \A i \in Tasks :
        (/\ Answered(i)
         /\ cfg.kind = "json"
         /\ ~IsLoginWithToken(tasks[i].call)
         /\ tasks[i].resp.status = 200)
        => IF tasks[i].resp.body.raw = "json"
           THEN tasks[i].result = Returned(Decoded(tasks[i].resp.body.v))
           ELSE tasks[i].result = Returned(RespObj(tasks[i].resp))

(***************************************************************************)
(* C6.  login with use_token=True against a 200 response whose payload has *)
(* no auth.client_token field (no "auth" key, "auth" not an object, or no  *)
(* "client_token" inside it) fails with the MissingTokenField error kind,  *)
(* distinct from the error raised for an HTTP 401 on the same call, for    *)
(* both adapters.                                                          *)
(***************************************************************************)
\* A 200 response with a JSON object for a payload, decodable by both
\* adapters, that has no auth.client_token.
LacksClientToken(r) ==
    /\ r.status = 200
    /\ IsJsonMime(r.ctype)
    /\ r.body.raw = "json"
    /\ r.body.v.j = "obj"
    /\ \/ "auth" \notin DOMAIN r.body.v.m
       \/ r.body.v.m["auth"].j # "obj"
       \/ "client_token" \notin DOMAIN r.body.v.m["auth"].m

AuthNotAnObject(r) == "auth" \in DOMAIN r.body.v.m /\ r.body.v.m["auth"].j # "obj"

\* The adapters define no MissingTokenField exception: the error of a missing
\* field is the KeyError of the dict lookup.
MissingTokenField == "KeyError"

\* The claim as stated: one error kind for the three shapes of payload.
C6_AsClaimed ==
    \A i \in Tasks :
        (/\ Answered(i)
         /\ IsLoginWithToken(tasks[i].call)
         /\ LacksClientToken(tasks[i].resp))
        => /\ tasks[i].result.kind = "raise"
           /\ tasks[i].result.err.exc = MissingTokenField
           /\ tasks[i].result.err.exc # ErrorKind(401)

\* C6 amended: the login fails with the unclassified error of the lookup,
\* KeyError for a missing key and TypeError when "auth" is not an object; a
\* 401 on the same call, with no suppression set, raises the classified
\* Unauthorized error instead.
C6_MissingTokenRaises ==
    \A i \in Tasks :
        (Answered(i) /\ IsLoginWithToken(tasks[i].call))
        => /\ LacksClientToken(tasks[i].resp)
              => /\ tasks[i].result.kind = "raise"
                 /\ ~tasks[i].result.err.classified
                 /\ tasks[i].result.err.exc =
                        (IF AuthNotAnObject(tasks[i].resp) THEN "TypeError"
                         ELSE "KeyError")
           /\ (tasks[i].resp.status = 401 /\ ~Suppressed(tasks[i].call))
              => /\ IsClassified(tasks[i].result)
                 /\ tasks[i].result.err.exc = "Unauthorized"

\* A login of the JSON adapter failed with TypeError on a 200 response whose
\* "auth" is null.
C6_Witness ==
    \E i \in Tasks :
        /\ Answered(i)
        /\ cfg.kind = "json"
        /\ IsLoginWithToken(tasks[i].call)
        /\ tasks[i].resp = Response(200, CtJson, AuthNullBody)
        /\ tasks[i].result = Raised(Unclassified("TypeError"))

(***************************************************************************)
(* SpecCompose: one caller; calls with any of the verbs, extra headers,    *)
(* query parameters and wrap_ttl options below, on adapters with every     *)
(* combination of request_header, namespace, strict_http and token.        *)
(***************************************************************************)
ComposeVerbs ==
    {<<"get", "get">>, <<"list", "list">>, <<"request", "LIST">>}

ComposeHeaders ==
    {Absent, Given(EmptyMap),
     Given(("X-Vault-Token" :> "other") @@ [XCustom |-> "c"]),
     Given(("X-Vault-Request" :> "false") @@ ("X-Vault-Namespace" :> "other")),
     Given("X-Vault-Wrap-TTL" :> "5")}

ComposeParams == {[a |-> "1"], [a |-> "1", list |-> "false"]}

ComposeWrapTtls == {IntV(0), IntV(10), StrV(""), StrV("5m")}

ComposeKwargs ==
    {EmptyMap}
    \cup {[params |-> q] : q \in ComposeParams}
    \cup {[wrap_ttl |-> w] : w \in ComposeWrapTtls}
    \cup {[params |-> q, wrap_ttl |-> w] : q \in ComposeParams, w \in ComposeWrapTtls}

ComposeCalls ==
    {Call(v[1], v[2], Chr("v"), h, TRUE, kw, FALSE) :
        v \in ComposeVerbs, h \in ComposeHeaders, kw \in ComposeKwargs}

ComposeAdapters ==
    {Adapter("raw", HostUrl, ns, FALSE, strict, rh) :
        ns \in {None, "", "ns"}, strict \in BOOLEAN, rh \in BOOLEAN}

InitCompose ==
    /\ cfg \in ComposeAdapters
    /\ token \in {None, "", "t0"}
    /\ tasks = [i \in Tasks |-> IdleTask]
    /\ lastLogin = Nil
    /\ joinIn = <<>>
    /\ joinOut = NotJoined
    /\ session = OpenSession
    /\ loop = NotLooping
    /\ caller = NoMaps

NextCompose ==
    \/ \E call \in ComposeCalls : Start(1, call)
    \/ Receive(1, Response(200, CtJson, NoAuthBody))

SpecCompose == InitCompose /\ [][NextCompose]_vars

\* The extra headers the caller supplied.
CallerHeaders(call) == IF call.headers.given THEN call.headers.map ELSE EmptyMap

\* The query parameters the caller supplied.
CallerParams(call) == Get(call.kw, "params", EmptyMap)

ListSpellings == {"list", "LIST", "List", "lIsT"}

HasHeader(t, k, v) == k \in DOMAIN t.sent.headers /\ t.sent.headers[k] = v

(***************************************************************************)
(* C7.  With strict_http enabled and the verb LIST in any letter case, the *)
(* transport call is made with verb GET and with the caller's query        *)
(* parameters plus list=true: every caller-supplied parameter other than   *)
(* "list" keeps its value and no other parameter is added.                 *)
(***************************************************************************)
C7_ListShim ==
    \A i \in Tasks :
        (/\ tasks[i].pc = "sent"
         /\ cfg.strict_http
         /\ tasks[i].call.method \in ListSpellings)
        => /\ tasks[i].sent.method \in {"get", "GET"}
           /\ "params" \in DOMAIN tasks[i].sent.kwargs
           /\ LET p == tasks[i].sent.kwargs["params"]
                  q == CallerParams(tasks[i].call)
              IN  /\ DOMAIN p = DOMAIN q \cup {"list"}
                  /\ p["list"] = "true"
                  /\ \A k \in DOMAIN q \ {"list"} : p[k] = q[k]

\* LIST with the caller's parameters a=1 and list=false is in flight as a GET
\* with a=1 and list=true.
C7_Witness ==
    \E i \in Tasks :
        /\ tasks[i].pc = "sent"
        /\ cfg.strict_http
        /\ tasks[i].call.method = "LIST"
        /\ CallerParams(tasks[i].call) = [a |-> "1", list |-> "false"]
        /\ tasks[i].sent.method = "get"
        /\ tasks[i].sent.kwargs["params"] = [a |-> "1", list |-> "true"]

(***************************************************************************)
(* C8.  The headers sent contain X-Vault-Request: true whenever            *)
(* request_header is enabled, X-Vault-Token: <token> whenever the adapter  *)
(* holds a token and X-Vault-Namespace: <namespace> whenever a namespace   *)
(* is configured; each overrides a caller-supplied extra header of the     *)
(* same name, and every other caller-supplied extra header is sent         *)
(* unchanged.                                                              *)
(***************************************************************************)
AdapterHeaders == {"X-Vault-Request", "X-Vault-Token", "X-Vault-Namespace"}

C9_StringForm(w) ==
    CASE w = IntV(0) -> "0"
      [] w = IntV(10) -> "10"
      [] w = StrV("") -> ""
      [] w = StrV("5m") -> "5m"

WrapTtlNotPassedOn(t) ==
    /\ "wrap_ttl" \notin DOMAIN t.sent.kwargs
    /\ "params" \in DOMAIN t.sent.kwargs => "wrap_ttl" \notin DOMAIN t.sent.kwargs["params"]

\* The claim as stated.
C9_AsClaimed ==
    \A i \in Tasks :
        tasks[i].pc = "sent" =>
            /\ "wrap_ttl" \in DOMAIN tasks[i].call.kw
                  => HasHeader(tasks[i], "X-Vault-Wrap-TTL",
                               C9_StringForm(tasks[i].call.kw["wrap_ttl"]))
            /\ WrapTtlNotPassedOn(tasks[i])

\* C9 amended: the header is set for a wrap_ttl that is neither 0 nor the
\* empty string; for 0 and "" the adapter sets no header (a header the caller
\* supplied is left as it is); wrap_ttl is never passed on.
C9_WrapTtlHeader ==
    \A i \in Tasks :
        tasks[i].pc = "sent" =>
            /\ "wrap_ttl" \in DOMAIN tasks[i].call.kw
                  => LET w == tasks[i].call.kw["wrap_ttl"]
                         h == MarkerHeader(cfg, CallerHeaders(tasks[i].call))
                     IN  IF w \in {IntV(0), StrV("")}
                         THEN /\ "X-Vault-Wrap-TTL" \in DOMAIN tasks[i].sent.headers
                                    <=> "X-Vault-Wrap-TTL" \in DOMAIN h
                              /\ "X-Vault-Wrap-TTL" \in DOMAIN h
                                    => HasHeader(tasks[i], "X-Vault-Wrap-TTL",
                                                 h["X-Vault-Wrap-TTL"])
                         ELSE HasHeader(tasks[i], "X-Vault-Wrap-TTL", C9_StringForm(w))
            /\ WrapTtlNotPassedOn(tasks[i])

\* wrap_ttl=10 went out as the header "10", over the caller's own header,
\* and not among the transport's options.
C9_Witness ==
    \E i \in Tasks :
        /\ tasks[i].pc = "sent"
        /\ tasks[i].call.kw = [params |-> [a |-> "1"], wrap_ttl |-> IntV(10)]
        /\ CallerHeaders(tasks[i].call) = "X-Vault-Wrap-TTL" :> "5"
        /\ HasHeader(tasks[i], "X-Vault-Wrap-TTL", "10")
        /\ tasks[i].sent.kwargs = [params |-> [a |-> "1"]]

(***************************************************************************)
(* SpecUrl: the URL Builder.  urljoin is applied to every sequence of at   *)
(* most MaxParts parts of at most MaxPartLen characters, and request is    *)
(* called with every relative path of at most MaxPathLen characters on     *)
(* adapters with the base URIs below.  urljoin is a static method and      *)
(* shares no state with request, so the calls of request are explored from *)
(* the one initial state in which urljoin has no parts to join.            *)
(***************************************************************************)
Alphabet == {"/", "a"}

Strings(n) == UNION {[1..k -> Alphabet] : k \in 0..n}

PartSeqs == UNION {[1..k -> Strings(MaxPartLen)] : k \in 0..MaxParts}

BaseUris ==
    {HostUrl, HostUrl \o <<"/">>, HostUrl \o <<"/", "a", "/", "/">>,
     HostUrl \o <<"/", "/", "a">>}

UrlAdapters == {Adapter("raw", b, None, FALSE, FALSE, TRUE) : b \in BaseUris}

PathCall(url) == Call("get", "get", url, Absent, TRUE, EmptyMap, FALSE)

InitUrl ==
    /\ \/ joinIn \in PartSeqs /\ cfg = Adapter("raw", HostUrl, None, FALSE, FALSE, TRUE)
       \/ joinIn = <<>> /\ cfg \in UrlAdapters
    /\ token = None
    /\ tasks = [i \in Tasks |-> IdleTask]
    /\ lastLogin = Nil
    /\ joinOut = NotJoined
    /\ session = OpenSession
    /\ loop = NotLooping
    /\ caller = NoMaps

NextUrl ==
    \/ JoinParts
    \/ JoinAgain
    \/ joinIn = <<>> /\ \E url \in Strings(MaxPathLen) : Start(1, PathCall(url))
    \/ Receive(1, Response(204, CtText, EmptyBody))

SpecUrl == InitUrl /\ [][NextUrl]_vars

\* The part of a URL after the first "://" (the whole of it when there is none).
AfterScheme(u) ==
    LET at == {k \in 1..(Len(u) - 2) : u[k] = ":" /\ u[k + 1] = "/" /\ u[k + 2] = "/"}
    IN  IF at = {} THEN u
        ELSE SubSeq(u, (CHOOSE k \in at : \A m \in at : k <= m) + 3, Len(u))

OnlySlashes(p) == \A k \in 1..Len(p) : p[k] = "/"

\* p has "//" somewhere between two characters that are not slashes.
InnerDoubleSlash(p) ==
    \E k \in 1..(Len(p) - 1) :
        /\ p[k] = "/" /\ p[k + 1] = "/"
        /\ \E a \in 1..(k - 1) : p[a] # "/"
        /\ \E b \in (k + 2)..Len(p) : p[b] # "/"

Rejoined == joinOut.done /\ "again" \in DOMAIN joinOut

\* The claim as stated.
C11_AsClaimed == Rejoined => joinOut.again = joinOut.url

\* C11 amended: joining the result again returns it unchanged exactly when
\* there is at most one part, or neither the first nor the last part is empty
\* or made only of slashes; otherwise the result begins or ends with the "/"
\* that the empty part left, and the second join strips it.
C11_IdempotentJoin ==
    Rejoined =>
        (joinOut.again = joinOut.url
           <=> \/ Len(joinIn) <= 1
               \/ /\ ~OnlySlashes(joinIn[1])
                  /\ ~OnlySlashes(joinIn[Len(joinIn)]))

\* "/a/" and "a//" were joined to "a/a", and joining "a/a" again gave "a/a".
C11_Witness ==
    /\ Rejoined
    /\ joinIn = << <<"/", "a", "/">>, <<"a", "/", "/">> >>
    /\ joinOut.url = <<"a", "/", "a">>
    /\ joinOut.again = <<"a", "/", "a">>

(***************************************************************************)
(* C12.  The success/failure boundary is status 200-299: with no           *)
(* suppression set, request returns normally exactly when the response     *)
(* status is in 200..299 and raises a classified error for every other     *)
(* status, including 3xx responses received when redirects are not         *)
(* followed.                                                               *)
(***************************************************************************)
\* An answered call of request (or of a login that only passes on what
\* request gave it) made with no suppression set.
PlainAnswer(i) ==
    /\ Answered(i)
    /\ ~IsLoginWithToken(tasks[i].call)
    /\ ~Suppressed(tasks[i].call)

\* The claim as stated.
C12_AsClaimed ==
    \A i \in Tasks :
        PlainAnswer(i) =>
            /\ tasks[i].result.kind = "return"
                 <=> tasks[i].resp.status \in 200..299
            /\ tasks[i].resp.status \notin 200..299
                 => IsClassified(tasks[i].result)

\* C12 amended: the boundary is status 400.  With no suppression set a
\* classified error is raised exactly when the status is 400 or above; below
\* 400, 3xx included, RawAsyncAdapter.request returns the response object,
\* and so does JSONAsyncAdapter.request for every status other than 200.
C12_BoundaryAt400 ==
    \A i \in Tasks :
        PlainAnswer(i) =>
            /\ IsClassified(tasks[i].result) <=> tasks[i].resp.status >= 400
            /\ (/\ tasks[i].resp.status < 400
                /\ cfg.kind = "raw" \/ tasks[i].resp.status # 200)
               => tasks[i].result = Returned(RespObj(tasks[i].resp))

\* A 301 answer to a get with no suppression set was returned as the
\* response object.
C12_Witness ==
    \E i \in Tasks :
        /\ PlainAnswer(i)
        /\ tasks[i].call.op = "get"
        /\ tasks[i].resp.status = 301
        /\ tasks[i].result = Returned(RespObj(tasks[i].resp))

(***************************************************************************)
(* The adapter's lifetime, for C13: one caller makes calls while the       *)
(* session is open, calls close() any number of times, and in the end      *)
(* drops the adapter.                                                      *)
(***************************************************************************)
InitLife ==
    /\ cfg \in MainAdapters
    /\ token \in {None, "t0"}
    /\ tasks = [i \in Tasks |-> IdleTask]
    /\ lastLogin = Nil
    /\ joinIn = <<>>
    /\ joinOut = NotJoined
    /\ session = OpenSession
    /\ loop = NotLooping
    /\ caller = NoMaps

NextLife ==
    \/ session = OpenSession /\ \E call \in MainCalls : Start(1, call)
    \/ ~session.discarded /\ \E r \in MainResponses : Receive(1, r)
    \/ ~session.discarded /\ Extract(1)
    \/ ~session.discarded /\ TransportError(1)
    \/ Close
    \/ Discard

SpecLife == InitLife /\ [][NextLife]_vars

(***************************************************************************)
(* C13.  The adapter's session is closed exactly once over the adapter's   *)
(* lifetime, on every exit path including after a request or login that    *)
(* failed: after any sequence of requests, logins, failures and close      *)
(* calls that ends with the adapter discarded, session.close has been      *)
(* invoked once, never zero times and never twice.                         *)
(***************************************************************************)
C13_ClosedExactlyOnce == session.discarded => session.closes = 1

(***************************************************************************)
(* C14.  The timeout configured at adapter construction is passed to the   *)
(* transport on every request: each session.request call made by request   *)
(* carries the adapter's timeout value alongside the verb, URL, headers     *)
(* and redirect-follow flag.                                               *)
(***************************************************************************)
C14_TimeoutPassedOn ==
    \A i \in Tasks :
        tasks[i].sent # Nil =>
            /\ "timeout" \in DOMAIN tasks[i].sent.kwargs
            /\ tasks[i].sent.kwargs["timeout"] = IntV(ConfiguredTimeout)

(***************************************************************************)
(* C15.  A transport-level failure of session.request (connection refused, *)
(* timeout, TLS failure) propagates to the caller of request or login as a *)
(* transport error: the status-based classifier (raise_for_error) is never *)
(* invoked for it, no JSON decoding is attempted, and a login hit by it    *)
(* does not change the stored token.                                       *)
(***************************************************************************)
\* The step in which the call of task i ends without session.request having
\* returned a response.
TransportFails(i) ==
    /\ tasks[i].pc = "sent"
    /\ tasks'[i].pc # "sent"
    /\ tasks'[i].resp = Nil

C15_TransportFailurePropagates ==
    [][\A i \in Tasks :
          TransportFails(i) =>
              /\ tasks'[i].pc = "idle"
              /\ tasks'[i].result = Raised(Unclassified("TransportFailure"))
              /\ ~IsClassified(tasks'[i].result)
              /\ token' = token
              /\ lastLogin' = lastLogin]_vars

\* A login with use_token=True ended in the transport failure and the token
\* is the one the adapter was constructed with.
C15_Witness ==
    \E i \in Tasks :
        /\ tasks[i].pc = "idle"
        /\ tasks[i].call # Nil
        /\ IsLoginWithToken(tasks[i].call)
        /\ tasks[i].resp = Nil
        /\ tasks[i].result = Raised(Unclassified("TransportFailure"))
        /\ token = "t0"
        /\ lastLogin = Nil

(***************************************************************************)
(* C16.  There is no retry: every call of get, post, put, delete, list,    *)
(* head or request makes exactly one transport call, and every login makes *)
(* exactly one POST, whether the outcome is success, a classified error or *)
(* a transport failure; the failure is surfaced by that same call.         *)
(***************************************************************************)
C16_NoRetry ==
    [][\A i \in Tasks :
          \* a call makes its one transport call when it starts
          /\ Starts(i) => tasks'[i].nsent = 1
          \* and none after that, whatever comes back
          /\ ~Starts(i) => tasks'[i].nsent = tasks[i].nsent
          /\ tasks'[i].call # Nil /\ tasks'[i].call.op = "login"
               => tasks'[i].sent.method = "post"
          \* session.request returning or raising ends the waiting: the call
          \* ends with that outcome or, for a login, goes on to read the token
          /\ tasks[i].pc = "sent" /\ tasks'[i] # tasks[i]
               => /\ tasks'[i].pc # "sent"
                  /\ tasks'[i].call = tasks[i].call
                  /\ tasks'[i].sent = tasks[i].sent
                  /\ tasks'[i].pc = "idle" => tasks'[i].result # Nil]_vars

\* A login answered 503 raised the classified error after one transport call.
C16_Witness ==
    \E i \in Tasks :
        /\ Answered(i)
        /\ tasks[i].call.op = "login"
        /\ tasks[i].resp.status = 503
        /\ IsClassified(tasks[i].result)
        /\ tasks[i].sent.method = "post"
        /\ tasks[i].nsent = 1

(***************************************************************************)
(* C17.  When a failing response is classified, the server's structured    *)
(* error list is preferred over raw text: the JSON parse is attempted      *)
(* first when the content type is the JSON type, and the raw body text is  *)
(* captured only if the content type is not JSON, the parse throws, or no  *)
(* error list is present; a parse failure never aborts classification, so  *)
(* the classified error is still raised and carries exactly one of the     *)
(* error list and the raw text.                                            *)
(***************************************************************************)
\* The "errors" member of the body of r, JNull when the body is not a JSON
\* object or has none.
BodyErrorList(r) ==
    IF r.body.raw = "json" /\ r.body.v.j = "obj" /\ "errors" \in DOMAIN r.body.v.m
    THEN r.body.v.m["errors"]
    ELSE JNull

\* The error of task i carries the error list of the body and no text when
\* jsonType holds and the body has an error list, else the text and no list.
CarriesListOrText(i, jsonType) ==
    LET r == tasks[i].resp
        e == tasks[i].result.err
    IN  IF jsonType /\ BodyErrorList(r) # JNull
        THEN e.errors = BodyErrorList(r) /\ e.text = [text |-> None]
        ELSE e.errors = JNull /\ e.text = [text |-> r.body]

LoginFrom(c, tok, call, snt, r) ==
    LET res == Interpret(c, call, snt, r)
    IN  IF res.kind = "raise" THEN <<tok, res>>
        ELSE IF c.kind = "raw"
             THEN StoreToken(tok, RawGetLoginToken(r), RespObj(r))
             ELSE StoreToken(tok, JSONGetLoginToken(res.val), res.val)

\* The same adapter of the other class.
OtherVariant(c) == [c EXCEPT !.kind = IF @ = "raw" THEN "json" ELSE "raw"]

\* The login that task i has ended is compared with the same login, holding the
\* same token and given the same response, on the adapter of the other class.
C18_SameExtraction ==
    \A i \in Tasks :
        (Answered(i) /\ IsLoginWithToken(tasks[i].call))
        => LET other == LoginFrom(OtherVariant(cfg), token, tasks[i].call,
                                  tasks[i].sent, tasks[i].resp)
           IN  /\ tasks[i].result.kind = other[2].kind
               /\ token = other[1]

(***************************************************************************)
(* C19.  JSONAsyncAdapter.request on a response whose status is not        *)
(* exactly 200 never decodes the body: for a non-failing status (such as   *)
(* 204 or an unfollowed 3xx) it returns the raw response object, and for a *)
(* failing status it behaves exactly as RawAsyncAdapter.request does       *)
(* (raises the same classified error, or returns the raw response when     *)
(* suppression is set).                                                    *)
(***************************************************************************)
C19_Not200IsRaw ==
    \A i \in Tasks :
        (/\ Answered(i)
         /\ cfg.kind = "json"
         /\ ~IsLoginWithToken(tasks[i].call)
         /\ tasks[i].resp.status # 200)
        => LET t == tasks[i]
               raw == RawInterpret(OtherVariant(cfg), t.call, t.sent, t.resp)
           IN  /\ t.result.kind = "return" => t.result.val = RespObj(t.resp)
               /\ t.resp.status < 400 => t.result = Returned(RespObj(t.resp))
               /\ t.resp.status >= 400 =>
                     /\ t.result = raw
                     /\ IF Suppressed(t.call)
                        THEN t.result = Returned(RespObj(t.resp))
                        ELSE /\ IsClassified(t.result)
                             /\ t.result.err.status = t.resp.status

\* The JSON adapter returned the response object of a 204 answer whose
\* Content-Type is application/json and whose body is a JSON object.
C19_Witness ==
    \E i \in Tasks :
        /\ Answered(i)
        /\ cfg.kind = "json"
        /\ tasks[i].call.op = "get"
        /\ tasks[i].resp = Response(204, CtJson, NoAuthBody)
        /\ tasks[i].result = Returned(RespObj(tasks[i].resp))

(***************************************************************************)
(* C20.  The stored token changes only through a login with use_token=True *)
(* that completes successfully: get, post, put, delete, list, head and     *)
(* request never modify the token or the namespace, a login with           *)
(* use_token=False leaves the token unchanged, and a login that fails      *)
(* (classified HTTP error, transport failure, or missing token field)      *)
(* leaves the token exactly as it was before the call.                     *)
(***************************************************************************)
\* The step in which a login with use_token=True of task i returns.
LoginSucceeds(i) ==
    /\ Finishes(i)
    /\ IsLoginWithToken(tasks[i].call)
    /\ tasks'[i].result.kind = "return"

C20_TokenFrame ==
    [][/\ cfg' = cfg
       /\ token' # token => \E i \in Tasks : LoginSucceeds(i)
       /\ \A i \in Tasks :
             tasks'[i] # tasks[i] /\ ~LoginSucceeds(i) => token' = token]_vars

\* A login with use_token=True got a 200 answer without auth.client_token,
\* failed with KeyError, and the token is the one the adapter started with.
C20_Witness ==
    \E i \in Tasks :
        /\ Answered(i)
        /\ IsLoginWithToken(tasks[i].call)
        /\ tasks[i].resp = Response(200, CtJson, NoAuthBody)
        /\ tasks[i].result = Raised(Unclassified("KeyError"))
        /\ token = "t0"

(***************************************************************************)
(* SpecLoop: the collapse loop of request(), iteration by iteration, on    *)
(* every path of at most MaxPathLen characters over "/", "a" and "b".  The *)
(* loop holds no await, so an iteration that can run does run.             *)
(***************************************************************************)
PathAlphabet == {"/", "a", "b"}

Paths == UNION {[1..k -> PathAlphabet] : k \in 0..MaxPathLen}

InitLoop ==
    /\ cfg = Adapter("raw", HostUrl, None, FALSE, FALSE, TRUE)
    /\ token = None
    /\ tasks = [i \in Tasks |-> IdleTask]
    /\ lastLogin = Nil
    /\ joinIn = <<>>
    /\ joinOut = NotJoined
    /\ session = OpenSession
    /\ \E p \in Paths : loop = [input |-> p, url |-> p, iters |-> 0, done |-> FALSE]
    /\ caller = NoMaps

NextLoop == CollapseStep \/ CollapseExit

SpecLoop == InitLoop /\ [][NextLoop]_vars /\ WF_vars(NextLoop)

(***************************************************************************)
(* C21.  The doubled-separator collapse of the relative path in request    *)
(* terminates for every input path, and when it finishes the path contains *)
(* no '//' while every run of slashes in the input has become a single     *)
(* slash and all other characters keep their order.                        *)
(***************************************************************************)
\* s with every run of slashes cut down to one slash.
RECURSIVE Squeeze(_)
Squeeze(s) ==
    IF Len(s) < 2 THEN s
    ELSE IF s[1] = "/" /\ s[2] = "/" THEN Squeeze(Tail(s))
    ELSE <<s[1]>> \o Squeeze(Tail(s))

\* Every iteration shortens the path, there are no more iterations than the
\* input has characters, the loop is left in the end, and the path it is left
\* with is the squeezed input, which is also what request() goes on with.
C21_CollapseTerminates ==
    /\ [][loop'.url # loop.url => Len(loop'.url) < Len(loop.url)]_vars
    /\ [](loop.iters <= Len(loop.input))
    /\ [](loop.done => /\ ~HasDoubleSlash(loop.url)
                       /\ loop.url = Squeeze(loop.input)
                       /\ loop.url = CollapseSlashes(loop.input))
    /\ <>loop.done

\* The loop was left after two iterations with "/ab" for "///ab".
C21_Witness ==
    /\ loop.done
    /\ loop.input = <<"/", "/", "/", "a", "b">>
    /\ loop.iters = 2
    /\ loop.url = <<"/", "a", "b">>

(***************************************************************************)
(* SpecReuse: one caller keeps a headers dict and a params dict and passes *)
(* them to one request after another, with logins in between.              *)
(***************************************************************************)
ReuseAdapters ==
    {Adapter("raw", HostUrl, ns, FALSE, strict, TRUE) :
        ns \in {None, "ns"}, strict \in BOOLEAN}

ReuseMaps ==
    {[headers |-> h, params |-> q, headers0 |-> h, params0 |-> q] :
        h \in {EmptyMap, [XCustom |-> "c"]}, q \in {EmptyMap, [a |-> "1"]}}

ReuseVerbs == {<<"get", "get">>, <<"list", "list">>}

ReuseTtls == {Absent, Given(IntV(10))}

ReuseResponses ==
    {Response(200, CtJson, NoAuthBody), Response(200, CtJson, AuthBody("t1"))}

InitReuse ==
    /\ cfg \in ReuseAdapters
    /\ token \in {None, "t0"}
    /\ tasks = [i \in Tasks |-> IdleTask]
    /\ lastLogin = Nil
    /\ joinIn = <<>>
    /\ joinOut = NotJoined
    /\ session = OpenSession
    /\ loop = NotLooping
    /\ caller \in ReuseMaps

NextReuse ==
    \/ \E v \in ReuseVerbs, ttl \in ReuseTtls : StartShared(1, v[1], v[2], ttl)
    \/ Start(1, LoginCall(TRUE, TRUE))
    \/ \E r \in ReuseResponses : Receive(1, r)
    \/ Extract(1)

SpecReuse == InitReuse /\ [][NextReuse]_vars

(***************************************************************************)
(* C22.  Request calls are independent of one another: request leaves the  *)
(* caller-supplied headers map and query-parameter map unchanged, so a map *)
(* reused for a later call does not carry a token, namespace, marker or    *)
(* wrap-TTL header, or a list=true parameter, that an earlier call added   *)
(* (for example after the adapter's token was cleared or replaced).        *)
(***************************************************************************)
C22_CallerMapsUnchanged ==
    /\ caller.headers = caller.headers0
    /\ caller.params = caller.params0
    /\ \A i \in Tasks :
          (tasks[i].sent # Nil /\ tasks[i].call.op = "get")
          => /\ "wrap_ttl" \notin DOMAIN tasks[i].call.kw
                  => "X-Vault-Wrap-TTL" \notin DOMAIN tasks[i].sent.headers
             /\ "list" \notin DOMAIN tasks[i].sent.kwargs["params"]

(***************************************************************************)
(* C23.  Under any interleaving of concurrent logins and requests on one   *)
(* adapter, the stored token is always either the token given at           *)
(* construction or the client_token of a login response whose login has    *)
(* completed, and after all logins have completed it equals the            *)
(* client_token of the login that completed last; every request is sent    *)
(* with a token that was the stored token at some moment between that      *)
(* request's start and its transport call.                                 *)
(*                                                                         *)
(* A login has completed when it has returned; a login that raised stored  *)
(* nothing.  A request is sent with the stored token as its X-Vault-Token  *)
(* header, and with no such header when the stored token is None or empty. *)
(***************************************************************************)
C23_TokenUnderInterleaving ==
    /\ [][\A i \in Tasks :
            \* the login that returns in this step has stored its client_token
            /\ LoginSucceeds(i) => token' = BodyClientToken(tasks'[i].resp)
            \* a request is sent with the token stored when it starts
            /\ Starts(i) =>
                  IF "X-Vault-Token" \in DOMAIN tasks'[i].sent.headers
                  THEN /\ tasks'[i].sent.headers["X-Vault-Token"] = token
                       /\ token' = token
                  ELSE token \in {None, ""}]_vars
       \* nothing but a returning login stores a token
    /\ [][token' # token => \E i \in Tasks : LoginSucceeds(i)]_vars
       \* the token is that of the login that returned last, if any has
    /\ [](lastLogin # Nil => token = lastLogin.t)
    /\ [][lastLogin' = Nil => token' = token]_vars

\* Two logins of the raw adapter overlapped, both sent with the construction
\* token "t0": the one answered with "t1" has returned and "t1" is stored,
\* the other, answered with "", still waits for its body.
C23_Witness ==
    \E i, j \in Tasks :
        /\ i # j
        /\ tasks[i].pc = "extract"
        /\ IsLoginWithToken(tasks[i].call)
        /\ BodyClientToken(tasks[i].resp) = ""
        /\ SentToken(tasks[i]) = "t0"
        /\ tasks[j].pc = "idle"
        /\ tasks[j].call # Nil
        /\ IsLoginWithToken(tasks[j].call)
        /\ SentToken(tasks[j]) = "t0"
        /\ lastLogin # Nil
        /\ lastLogin.by = j
        /\ token = "t1"

====
